---- MODULE Spec2Model ----
(***************************************************************************)
(* The charge-fees instruction handler of the autobahn executor:           *)
(* programs/autobahn-executor/src/instructions/execute_charge_fees.rs.     *)
(*                                                                         *)
(* A u64 is a little-endian sequence of NLimbs limbs in base Base          *)
(* (4 x 16 bits), so that every operation of the handler is computed at    *)
(* its true width of 64 bits.  A "wide" number has one more limb and holds *)
(* an exact product or sum.                                                *)
(***************************************************************************)
EXTENDS Integers, Sequences, FiniteSets, TLC

\* ------------------------------------------------------------------------
\* 64-bit unsigned arithmetic
\* ------------------------------------------------------------------------
Base == 65536
NLimbs == 4

Zero == <<0, 0, 0, 0>>

U64(n) == <<n, 0, 0, 0>>

Widen(a) == a \o <<0>>

RECURSIVE MulCarry(_, _, _, _)
MulCarry(a, k, i, carry) ==
    IF i > Len(a) THEN <<carry>>
    ELSE LET t == a[i] * k + carry
         IN  <<t % Base>> \o MulCarry(a, k, i + 1, t \div Base)

\* the exact product a * k, one limb wider than a
MulWide(a, k) == MulCarry(a, k, 1, 0)

\* the product as a u64 holds it: reduced modulo 2^64
wrapping_mul(a, k) == SubSeq(MulWide(a, k), 1, NLimbs)

\* the product does not fit in a u64
MulOverflows(a, k) == MulWide(a, k)[NLimbs + 1] # 0

RECURSIVE DivRem(_, _, _, _)
DivRem(a, d, i, rem) ==
    IF i = 0 THEN <<>>
    ELSE LET t == rem * Base + a[i]
         IN  DivRem(a, d, i - 1, t % d) \o <<t \div d>>

\* truncating division of a (any number of limbs) by a small divisor
DivSmall(a, d) == DivRem(a, d, Len(a), 0)

RECURSIVE LtFrom(_, _, _)
LtFrom(a, b, i) ==
    IF i = 0 THEN FALSE
    ELSE IF a[i] # b[i] THEN a[i] < b[i]
    ELSE LtFrom(a, b, i - 1)

Lt(a, b) == LtFrom(a, b, Len(a))

Le(a, b) == ~Lt(b, a)

RECURSIVE SubBorrow(_, _, _, _)
SubBorrow(a, b, i, borrow) ==
    IF i > Len(a) THEN <<>>
    ELSE LET t == a[i] - b[i] - borrow
         IN  IF t < 0 THEN <<t + Base>> \o SubBorrow(a, b, i + 1, 1)
             ELSE <<t>> \o SubBorrow(a, b, i + 1, 0)

RECURSIVE AddCarry(_, _, _, _)
AddCarry(a, b, i, carry) ==
    IF i > Len(a) THEN <<carry>>
    ELSE LET t == a[i] + b[i] + carry
         IN  <<t % Base>> \o AddCarry(a, b, i + 1, t \div Base)

\* the exact sum a + b, one limb wider than a
AddWide(a, b) == AddCarry(a, b, 1, 0)

\* u64::saturating_sub
saturating_sub(a, b) == IF Lt(a, b) THEN Zero ELSE SubBorrow(a, b, 1, 0)

\* std::cmp::min on u8
min(a, b) == IF a <= b THEN a ELSE b

\* ------------------------------------------------------------------------
\* Inputs
\* ------------------------------------------------------------------------
MaxAccounts == 6
MaxSmallFee == 3
U8Max == 255

\* spl_token::ID and some other program's key
SplTokenId == "spl_token"
ProgramKeys == {SplTokenId, "other_program"}

\* the keys of accounts[1], accounts[2], ...: pairwise distinct
AccountKeys ==
    <<"token_account", "platform_fee_account", "signer_account",
      "referrer_fee_account", "extra_5", "extra_6", "extra_7", "extra_8">>

\* an account list of n accounts whose first key is prog, indexed from 0
AccountList(n, prog) ==
    [i \in 0..(n - 1) |-> IF i = 0 THEN prog ELSE AccountKeys[i]]

NumAccounts(accs) == Cardinality(DOMAIN accs)

MaxSafeFee == <<36700, 62914, 23592, 655>>      \* floor((2^64 - 1) / 100)
MaxU64 == <<65535, 65535, 65535, 65535>>        \* 2^64 - 1

FeeAmounts ==
    {U64(v) : v \in 0..MaxSmallFee}
    \cup {U64(99), U64(100), U64(101), U64(65535)}
    \cup {<<0, 0, 1, 0>>,                       \* 2^32
          <<0, 42852, 46771, 3552>>,          \* 10^18
          MaxSafeFee,                                   \* floor((2^64 - 1) / 100)
          <<36701, 62914, 23592, 655>>,       \* floor((2^64 - 1) / 100) + 1
          <<21845, 21845, 21845, 21845>>,     \* (2^64 - 1) / 3
          <<0, 0, 0, 32768>>,                 \* 2^63
          <<65535, 65535, 65535, 32767>>,     \* 2^63 - 1
          <<21846, 21845, 21845, 21845>>,     \* floor(2^64 / 3) + 1
          <<7864, 60293, 47185, 1310>>,       \* floor(2^64 / 50)
          <<7865, 60293, 47185, 1310>>,       \* floor(2^64 / 50) + 1
          <<60241, 2647, 64212, 661>>,        \* floor(2^64 / 99) + 1
          <<65436, 65535, 65535, 65535>>,     \* 2^64 - 100
          <<1, 0, 0, 1>>,                     \* 2^48 + 1
          <<9362, 37449, 18724, 9362>>,       \* floor(2^64 / 7)
          MaxU64}

Percents == 0..U8Max

\* ------------------------------------------------------------------------
\* The handler's computations
\* ------------------------------------------------------------------------
\* variant: the percentage used as read, without the clamp
ClampPercentUnclamped(p) == p

ClampPercent(p) == min(100, p)

\* variant: the length check off by one
NotEnoughAccountsBelowThree(n) == n < 3

NotEnoughAccounts(n) == n < 4

\* variant: any account beyond the fourth counts as a referrer
HasReferrerAtLeastFive(n) == n >= 5

HasReferrer(n) == n = 5

\* variant: the percentage applied also without a referrer
PlatformFeeAmountAlwaysSplit(referrer, fee, pct) ==
    DivSmall(wrapping_mul(fee, pct), 100)

\* the value of platform_fee_amount when the multiplication wraps
PlatformFeeAmount(referrer, fee, pct) ==
    IF referrer THEN DivSmall(wrapping_mul(fee, pct), 100) ELSE fee

\* variant: the referrer is paid the percentage, not the remainder
ReferrerFeeAmountSameShare(fee, platform) == platform

ReferrerFeeAmount(fee, platform) == saturating_sub(fee, platform)

\* variant: the error of the call dropped
TryIgnoringError(ok, next) == next

\* the ? operator: go on to next when the call returned Ok, else return
Try(ok, next) == IF ok THEN next ELSE "done"

TransferIx(program, source, destination, authority, amount, infos, ok) ==
    [kind |-> "transfer", program |-> program, source |-> source,
     destination |-> destination, authority |-> authority,
     signers |-> <<authority>>, amount |-> amount, infos |-> infos, ok |-> ok]

PlatformFeeLog(user, account, fee) ==
    [kind |-> "PlatformFeeLog", user |-> user, account |-> account,
     amount |-> fee]

ReferrerFeeLog(referee, account, fee) ==
    [kind |-> "ReferrerFeeLog", user |-> referee, account |-> account,
     amount |-> fee]

\* ------------------------------------------------------------------------
\* State
\* ------------------------------------------------------------------------
VARIABLES
    pc,                    \* position in execute_charge_fees
    accounts,              \* the account list of the call
    instruction_data,      \* the instruction data of the call
    fee_amount,            \* local, a u64
    platform_fee_percent,  \* local, a u8, after the clamp
    has_referrer,          \* local
    platform_fee_amount,   \* local, a u64
    referrer_fee_amount,   \* local, a u64
    events,                \* cross-program calls and logs, in order
    result                 \* what the call returned

vars == <<pc, accounts, instruction_data, fee_amount, platform_fee_percent,
          has_referrer, platform_fee_amount, referrer_fee_amount, events,
          result>>

Init ==
    /\ pc = "idle"
    /\ accounts = AccountList(0, SplTokenId)
    /\ instruction_data = [total_fee_amount_native |-> Zero,
                           platform_fee_percent |-> 0]
    /\ fee_amount = Zero
    /\ platform_fee_percent = 0
    /\ has_referrer = FALSE
    /\ platform_fee_amount = Zero
    /\ referrer_fee_amount = Zero
    /\ events = <<>>
    /\ result = "none"

\* the runtime calls the handler with an account list and instruction data
Call ==
    /\ pc = "idle"
    /\ \E n \in 0..MaxAccounts, prog \in ProgramKeys,
          fee \in FeeAmounts, pct \in Percents :
          /\ accounts' = AccountList(n, prog)
          /\ instruction_data' = [total_fee_amount_native |-> fee,
                                  platform_fee_percent |-> pct]
    /\ pc' = "read_data"
    /\ UNCHANGED <<fee_amount, platform_fee_percent, has_referrer,
                   platform_fee_amount, referrer_fee_amount, events, result>>

\* the instruction data holds the 9 bytes of the layout
ReadData ==
    /\ pc = "read_data"
    /\ fee_amount' = instruction_data.total_fee_amount_native
    /\ platform_fee_percent' =
           ClampPercent(instruction_data.platform_fee_percent)
    /\ pc' = "check_len"
    /\ UNCHANGED <<accounts, instruction_data, has_referrer,
                   platform_fee_amount, referrer_fee_amount, events, result>>

CheckLen ==
    /\ pc = "check_len"
    /\ IF NotEnoughAccounts(NumAccounts(accounts))
       THEN pc' = "done" /\ result' = "NotEnoughAccountKeys"
       ELSE pc' = "compute" /\ result' = result
    /\ UNCHANGED <<accounts, instruction_data, fee_amount,
                   platform_fee_percent, has_referrer, platform_fee_amount,
                   referrer_fee_amount, events>>

\* An overflowing multiplication panics in a build with overflow checks and
\* wraps in a build without them.
ComputePlatformFee ==
    /\ pc = "compute"
    /\ has_referrer' = HasReferrer(NumAccounts(accounts))
    /\ \E overflow_checks \in BOOLEAN :
          IF /\ overflow_checks
             /\ has_referrer'
             /\ MulOverflows(fee_amount, platform_fee_percent)
          THEN /\ pc' = "done"
               /\ result' = "Panic"
               /\ platform_fee_amount' = platform_fee_amount
          ELSE /\ pc' = "check_program"
               /\ result' = result
               /\ platform_fee_amount' =
                      PlatformFeeAmount(has_referrer', fee_amount,
                                        platform_fee_percent)
    /\ UNCHANGED <<accounts, instruction_data, fee_amount,
                   platform_fee_percent, referrer_fee_amount, events>>

CheckTokenProgram ==
    /\ pc = "check_program"
    /\ IF accounts[0] # SplTokenId
       THEN pc' = "done" /\ result' = "IncorrectProgramId"
       ELSE pc' = "platform_transfer" /\ result' = result
    /\ UNCHANGED <<accounts, instruction_data, fee_amount,
                   platform_fee_percent, has_referrer, platform_fee_amount,
                   referrer_fee_amount, events>>

\* the token program carries the transfer out or fails it
PlatformTransfer ==
    /\ pc = "platform_transfer"
    /\ \E ok \in BOOLEAN :
          /\ events' = Append(events,
                 TransferIx(accounts[0], accounts[1], accounts[2],
                            accounts[3], platform_fee_amount,
                            <<accounts[1], accounts[2], accounts[3]>>, ok))
          /\ pc' = Try(ok, "platform_log")
          /\ result' = IF pc' = "done" THEN "InvokeError" ELSE result
    /\ UNCHANGED <<accounts, instruction_data, fee_amount,
                   platform_fee_percent, has_referrer, platform_fee_amount,
                   referrer_fee_amount>>

PlatformLog ==
    /\ pc = "platform_log"
    /\ \E ok \in BOOLEAN :
          /\ events' = IF ok
                       THEN Append(events,
                                PlatformFeeLog(accounts[3], accounts[2],
                                               platform_fee_amount))
                       ELSE events
          /\ pc' = Try(ok, IF has_referrer THEN "referrer_transfer"
                                           ELSE "done")
          /\ result' = IF pc' # "done" THEN result
                       ELSE IF ok THEN "Ok" ELSE "LogError"
    /\ UNCHANGED <<accounts, instruction_data, fee_amount,
                   platform_fee_percent, has_referrer, platform_fee_amount,
                   referrer_fee_amount>>

ReferrerTransfer ==
    /\ pc = "referrer_transfer"
    /\ referrer_fee_amount' = ReferrerFeeAmount(fee_amount,
                                                platform_fee_amount)
    /\ \E ok \in BOOLEAN :
          /\ events' = Append(events,
                 TransferIx(accounts[0], accounts[1], accounts[4],
                            accounts[3], referrer_fee_amount',
                            <<accounts[1], accounts[4], accounts[3]>>, ok))
          /\ pc' = Try(ok, "referrer_log")
          /\ result' = IF pc' = "done" THEN "InvokeError" ELSE result
    /\ UNCHANGED <<accounts, instruction_data, fee_amount,
                   platform_fee_percent, has_referrer, platform_fee_amount>>

ReferrerLog ==
    /\ pc = "referrer_log"
    /\ \E ok \in BOOLEAN :
          /\ events' = IF ok
                       THEN Append(events,
                                ReferrerFeeLog(accounts[3], accounts[4],
                                               referrer_fee_amount))
                       ELSE events
          /\ pc' = Try(ok, "done")
          /\ result' = IF ok THEN "Ok" ELSE "LogError"
    /\ UNCHANGED <<accounts, instruction_data, fee_amount,
                   platform_fee_percent, has_referrer, platform_fee_amount,
                   referrer_fee_amount>>

Next ==
    \/ Call
    \/ ReadData
    \/ CheckLen
    \/ ComputePlatformFee
    \/ CheckTokenProgram
    \/ PlatformTransfer
    \/ PlatformLog
    \/ ReferrerTransfer
    \/ ReferrerLog

Spec == Init /\ [][Next]_vars

\* ------------------------------------------------------------------------
\* Vocabulary of the properties
\* ------------------------------------------------------------------------
N == NumAccounts(accounts)

TotalFee == instruction_data.total_fee_amount_native

RawPercent == instruction_data.platform_fee_percent

\* p = min(platform_fee_percent, 100)
P == IF RawPercent > 100 THEN 100 ELSE RawPercent

IsTransfer(e) == e.kind = "transfer"

Transfers == SelectSeq(events, IsTransfer)

TransferIndexesTo(key) ==
    {i \in DOMAIN events : IsTransfer(events[i]) /\ events[i].destination = key}

\* floor(fee * p / 100) and ceil(fee * q / 100), exact, as wide numbers
FloorShare(fee, p) == DivSmall(MulWide(fee, p), 100)

CeilShare(fee, q) ==
    SubSeq(DivSmall(AddWide(MulWide(fee, q), Widen(U64(99))), 100),
           1, NLimbs + 1)

RECURSIVE SumAmounts(_)
SumAmounts(ts) ==
    IF ts = <<>> THEN Widen(Zero)
    ELSE SubSeq(AddWide(SumAmounts(Tail(ts)), Widen(Head(ts).amount)),
                1, NLimbs + 1)

RunningStates == {"idle", "read_data", "check_len", "compute"}

\* ------------------------------------------------------------------------
\* Properties
\* ------------------------------------------------------------------------

\* C1: with exactly 5 accounts and the correct token program, the amount of
\* the transfer to accounts[2] is floor(total_fee_amount_native * p / 100),
\* p = min(platform_fee_percent, 100), for every u64 fee and u8 percent.
C1_PlatformAmountIsFloor ==
    (N = 5 /\ accounts[0] = SplTokenId) =>
        \A i \in TransferIndexesTo(accounts[2]) :
            Widen(events[i].amount) = FloorShare(TotalFee, P)

\* C2: with exactly 5 accounts and result Ok, there are two transfers, to
\* accounts[2] and to accounts[4]; the second amount is the fee minus the
\* first, and the two amounts sum to exactly total_fee_amount_native.
C2_SplitIsExact ==
    (N = 5 /\ pc = "done" /\ result = "Ok") =>
        /\ Len(Transfers) = 2
        /\ Transfers[1].destination = accounts[2]
        /\ Transfers[2].destination = accounts[4]
        /\ AddWide(Transfers[1].amount, Transfers[2].amount) = Widen(TotalFee)
        /\ Widen(Transfers[2].amount)
               = SubBorrow(Widen(TotalFee), Widen(Transfers[1].amount), 1, 0)

C2_Witness ==
    /\ N = 5 /\ pc = "done" /\ result = "Ok"
    /\ Len(Transfers) = 2
    /\ Transfers[1].amount # Zero
    /\ Transfers[2].amount # Zero
    /\ TotalFee = MaxU64

\* C3: with exactly 4 accounts and the correct token program, exactly one
\* transfer is invoked, of the whole total_fee_amount_native, to accounts[2],
\* whatever platform_fee_percent is; there is no referrer transfer and no
\* referrer fee log.
C3_NoReferrerWholeFee ==
    (N = 4 /\ accounts[0] = SplTokenId) =>
        /\ Len(Transfers) <= 1
        /\ pc \in {"platform_log", "done"} => Len(Transfers) = 1
        /\ \A i \in DOMAIN events :
              /\ events[i].kind \in {"transfer", "PlatformFeeLog"}
              /\ IsTransfer(events[i]) =>
                    /\ events[i].destination = accounts[2]
                    /\ events[i].amount = TotalFee
        /\ pc \notin {"referrer_transfer", "referrer_log"}

C3_Witness ==
    /\ N = 4 /\ accounts[0] = SplTokenId
    /\ pc = "done" /\ result = "Ok"
    /\ RawPercent = 50
    /\ TotalFee = MaxU64
    /\ Len(Transfers) = 1

\* C4: a call with platform_fee_percent above 100 behaves as the same call
\* with platform_fee_percent equal to 100: the percentage used is 100, it
\* panics exactly when the call with 100 does, every amount is the one
\* computed with 100, and with a referrer the platform receives the whole
\* fee and the referrer receives 0.
C4_ClampedLikeHundred ==
    (RawPercent > 100 /\ pc \notin {"idle", "read_data"}) =>
        /\ platform_fee_percent = 100
        /\ result = "Panic" => (N = 5 /\ MulOverflows(TotalFee, 100))
        /\ \A i \in DOMAIN events : IsTransfer(events[i]) =>
              events[i].amount =
                  IF events[i].destination = accounts[2]
                  THEN PlatformFeeAmount(N = 5, TotalFee, 100)
                  ELSE ReferrerFeeAmount(TotalFee,
                           PlatformFeeAmount(N = 5, TotalFee, 100))
        /\ N = 5 =>
              \A i \in DOMAIN events : IsTransfer(events[i]) =>
                  events[i].amount =
                      IF events[i].destination = accounts[2]
                      THEN TotalFee ELSE Zero

\* C5: with fewer than 4 accounts the call returns NotEnoughAccountKeys, with
\* no transfer invoked and no log emitted, whatever accounts[0] is: the token
\* program check is never reached.
C5_NotEnoughAccountKeys ==
    N < 4 =>
        /\ events = <<>>
        /\ pc \in {"idle", "read_data", "check_len", "done"}
        /\ pc = "done" => result = "NotEnoughAccountKeys"
        /\ pc # "done" => result = "none"

C5_Witness ==
    /\ N = 3
    /\ accounts[0] # SplTokenId
    /\ pc = "done"
    /\ result = "NotEnoughAccountKeys"

\* C6: with at least 4 accounts and an accounts[0] that is not the SPL token
\* program, the call returns IncorrectProgramId with no transfer invoked and
\* no log emitted, with and without a referrer.
C6_IncorrectProgramId ==
    (N >= 4 /\ accounts[0] # SplTokenId) =>
        /\ events = <<>>
        /\ pc = "done" => result = "IncorrectProgramId"

\* C7: with a referrer the events occur in the order platform transfer,
\* platform fee log, referrer transfer, referrer fee log; a step is taken
\* only if every earlier step succeeded: a failed transfer is the last event
\* and its error is returned, and a fee log follows a successful transfer of
\* the same amount to the same account.
KindOrder == <<"transfer", "PlatformFeeLog", "transfer", "ReferrerFeeLog">>

C7_OrderedSteps ==
    N = 5 =>
        /\ Len(events) <= 4
        /\ \A i \in DOMAIN events :
              /\ events[i].kind = KindOrder[i]
              /\ i = 1 => events[i].destination = accounts[2]
              /\ i = 3 => events[i].destination = accounts[4]
              /\ (IsTransfer(events[i]) /\ ~events[i].ok) =>
                    /\ i = Len(events)
                    /\ pc = "done"
                    /\ result = "InvokeError"
              /\ ~IsTransfer(events[i]) =>
                    /\ events[i - 1].ok
                    /\ events[i].account = events[i - 1].destination
                    /\ events[i].amount = events[i - 1].amount
        /\ result = "Ok" => Len(events) = 4
        /\ result = "LogError" =>
              /\ Len(events) \in {1, 3}
              /\ events[Len(events)].ok
        /\ result \in {"Panic", "IncorrectProgramId"} => events = <<>>

C7_Witness ==
    /\ N = 5
    /\ result = "Ok"
    /\ Len(events) = 4
    /\ events[3].amount # Zero

\* C8: with exactly 5 accounts the referrer amount is
\* ceil(total_fee_amount_native * (100 - p) / 100), p = min(percent, 100):
\* at least the exact share and less than one native unit above it.
C8_ReferrerAmountIsCeil ==
    N = 5 =>
        \A i \in TransferIndexesTo(accounts[4]) :
            /\ Widen(events[i].amount) = CeilShare(TotalFee, 100 - P)
            /\ Le(MulWide(TotalFee, 100 - P), MulWide(events[i].amount, 100))

\* C9: the referrer path is taken if and only if there are exactly 5
\* accounts.  With 6 or more accounts the call runs as a no-referrer call:
\* the whole fee goes to accounts[2] whatever the percentage, and no account
\* of index 4 or more appears in a transfer or a log.
ExtraKeys == {accounts[i] : i \in (DOMAIN accounts) \ {0, 1, 2, 3}}

KeysOf(e) ==
    IF IsTransfer(e)
    THEN {e.program, e.source, e.destination, e.authority}
         \cup {e.signers[j] : j \in DOMAIN e.signers}
         \cup {e.infos[j] : j \in DOMAIN e.infos}
    ELSE {e.user, e.account}

C9_ReferrerOnlyWithFive ==
    /\ (pc \in {"referrer_transfer", "referrer_log"}) => N = 5
    /\ (N = 5 /\ result = "Ok") => Len(Transfers) = 2
    /\ N >= 6 =>
          /\ Len(events) <= 2
          /\ \A i \in DOMAIN events :
                /\ events[i].kind \in {"transfer", "PlatformFeeLog"}
                /\ KeysOf(events[i]) \cap ExtraKeys = {}
                /\ IsTransfer(events[i]) =>
                      /\ events[i].destination = accounts[2]
                      /\ events[i].amount = TotalFee
          /\ (pc = "done" /\ Len(events) = 2) => result = "Ok"
          /\ result # "Panic"

C9_Witness ==
    /\ N = 6
    /\ pc = "done" /\ result = "Ok"
    /\ RawPercent = 50
    /\ TotalFee = MaxU64
    /\ Len(events) = 2

\* C10: the computed platform amount never exceeds total_fee_amount_native,
\* also when fee * percent is reduced modulo 2^64; so the saturating
\* subtraction never saturates, and no transfer, nor the sum of the
\* transfers, exceeds total_fee_amount_native.
C10_PlatformAtMostFee ==
    pc \notin RunningStates =>
        /\ Le(platform_fee_amount, TotalFee)
        /\ pc \in {"referrer_log"} \/ Len(Transfers) = 2 =>
              AddWide(platform_fee_amount, referrer_fee_amount)
                  = Widen(TotalFee)
        /\ \A i \in DOMAIN Transfers : Le(Transfers[i].amount, TotalFee)
        /\ Le(SumAmounts(Transfers), Widen(TotalFee))

C10_Witness ==
    /\ N = 5
    /\ pc = "done" /\ result = "Ok"
    /\ MulOverflows(TotalFee, platform_fee_percent)
    /\ Len(Transfers) = 2
    /\ Transfers[1].amount # Zero

====
